---- MODULE Spec2Model ----
(***************************************************************************)
(* bingwallpaper: a cron-driven program that reads a newest-first listing  *)
(* of dated wallpapers, downloads the ones missing from the local ledger   *)
(* (wpFile), sets the newest as desktop background and prepends one line   *)
(* per downloaded wallpaper to the ledger with "sed -i".                   *)
(*                                                                         *)
(* The repository holds three variants of the program; the model carries   *)
(* all three and the variable "variant" says which one is running:         *)
(*   "part_000"      src/unnamed/part_000  (getResponse, sedCmd.Run)       *)
(*   "part_001"      src/unnamed/part_001  (future-date skip, sedCmd.Start)*)
(*   "bingwallpaper" src/bingwallpaper.go  (sedCmd.Start, no skip)         *)
(*                                                                         *)
(* Calendar days are integers; the zero time.Time is 0.  Texts (titles,    *)
(* descriptions, sed scripts) are sequences of one-character strings.      *)
(***************************************************************************)
EXTENDS Integers, Sequences, FiniteSets, TLC

\* ------------------------------------------------------------------ bounds
MaxDay == 4         \* calendar days are 1..MaxDay
MaxRuns == 2        \* runs of the program per behaviour
MaxListing == 2     \* entries on the listing page
MaxLen == 1         \* characters of a title or a description
MaxFaults == 1      \* failed requests, file operations and process starts per behaviour
MaxOddPages == 1    \* detail pages with a reserved character or another date per behaviour

\* --------------------------------------------------------------- universes
Variants == {"part_000", "part_001", "bingwallpaper"}
Days == 1..MaxDay
BadDate == 0        \* a date text that time.Parse rejects
ZeroTime == 0       \* the zero time.Time of the global lastDate
Chars == {"a", "&", "'", ";"}

RECURSIVE SeqsUpTo(_, _)
SeqsUpTo(S, n) ==
    IF n = 0 THEN {<<>>}
    ELSE LET shorter == SeqsUpTo(S, n - 1)
         IN  shorter \cup {Append(s, c) : s \in {t \in shorter : Len(t) = n - 1}, c \in S}

Texts == SeqsUpTo(Chars, MaxLen) \ {<<>>}
Listings == SeqsUpTo(Days \cup {BadDate}, MaxListing)

\* ------------------------------------------------- what the variants differ in
\* The scan skips an entry dated after today instead of collecting it.
SkipsFuture_Mutant(v) == FALSE
SkipsFuture(v) == v \in {"part_000", "part_001"}

\* The processing of urls is guarded by len(urls) > 0.
GuardsEmptyUrls(v) == v \in {"part_000", "part_001"}

\* The image GET goes through getResponse, which panics on a status other than 200.
ChecksImageStatus_Mutant(v) == FALSE
ChecksImageStatus(v) == v = "part_000"

\* logWallpaper waits for sed (Run) instead of only starting it (Start).
WaitsForSed(v) == v = "part_000"

\* GET requests for pages in downloadWallpaper (transitional page, page with photo).
PageRequests(v) == IF v = "part_000" THEN 2 ELSE 1

\* The characters logWallpaper replaces by a \xHH escape.
Escaped(v) ==
    CASE v = "part_000" -> {"&", "'", ";"}
      [] v = "part_001" -> {"'", ";"}
      [] OTHER -> {"'"}

\* The texts a detail page is served with: one plain, one with a character
\* that only part_000 escapes, one with a character that ends the s command.
PageTexts == {t \in Texts : t[Len(t)] \in {"a", "&", ";"} /\ \A k \in 1..(Len(t) - 1) : t[k] = "a"}

\* The fields of the detail page each variant extracts.
TitleChoices(v) ==
    CASE v = "part_000" -> {<<"a">>}
      [] v = "part_001" -> {<<>>}
      [] OTHER -> PageTexts
DescriptionChoices(v) == IF v = "bingwallpaper" THEN {<<>>} ELSE PageTexts

\* The dates a detail page is served with for a listing entry dated ld: the
\* same day, or the day before.
DetailDates(ld) == {ld, ld - 1} \cap Days

\* ------------------------------------------------------------------- dates
After(d, e) == d > e
Yesterday_Mutant(tdy) == tdy - 2
Yesterday(tdy) == tdy - 1
AlreadySynchronized_Mutant(last, tdy) == last = Yesterday(tdy)
AlreadySynchronized(last, tdy) == last = tdy
StopsScan_Mutant(date, last) == After(last, date)
StopsScan(date, last) == ~After(date, last)
IsFuture_Mutant(date, tdy) == FALSE
IsFuture(date, tdy) == After(date, tdy)

\* ------------------------------------------------------- ledger lines, texts
BlankLine == [date |-> BadDate, filename |-> 0, text |-> <<>>]
NoItem == [ldate |-> 0, date |-> 0, filename |-> 0, title |-> <<>>, description |-> <<>>]

\* The text logWallpaper records for an item.
LoggedText(v, title, description) ==
    CASE v = "part_000" -> title \o <<".", " ", " ">> \o description
      [] v = "part_001" -> description
      [] OTHER -> title

HexEscape(c) ==
    CASE c = "&" -> <<"\\", "x", "2", "6">>
      [] c = "'" -> <<"\\", "x", "2", "7">>
      [] c = ";" -> <<"\\", "x", "3", "b">>
      [] OTHER -> <<c>>

HexDecode(h, l) ==
    CASE h = "2" /\ l = "6" -> "&"
      [] h = "2" /\ l = "7" -> "'"
      [] h = "3" /\ l = "b" -> ";"
      [] OTHER -> "?"

\* strings.Replace of every escaped character.
RECURSIVE FixedDescription(_, _)
FixedDescription(v, text) ==
    IF text = <<>> THEN <<>>
    ELSE (IF Head(text) \in Escaped(v) THEN HexEscape(Head(text)) ELSE <<Head(text)>>)
         \o FixedDescription(v, Tail(text))

\* What follows "1s;^;<date> <filename> " in the sed script: the escaped text,
\* the newline marker and the closing delimiter.
SedScript(v, text) == FixedDescription(v, text) \o <<"\\", "n", ";">>

\* GNU sed reading the replacement of the s command from position k: a bare ";"
\* closes the command and anything after it is read as flags (an error here,
\* the rest always holding a backslash); a bare "&" is the matched text, which
\* is empty for ^; \n is a newline and \xHH the character with that code.
RECURSIVE SedReplacement(_, _)
SedReplacement(script, k) ==
    IF k > Len(script) THEN [ok |-> FALSE, out |-> <<>>]
    ELSE LET c == script[k] IN
      IF c = ";" THEN [ok |-> k = Len(script), out |-> <<>>]
      ELSE IF c = "&" THEN SedReplacement(script, k + 1)
      ELSE IF c = "\\" /\ k + 1 <= Len(script) /\ script[k + 1] = "n"
        THEN LET r == SedReplacement(script, k + 2)
             IN  [ok |-> r.ok, out |-> <<"\n">> \o r.out]
      ELSE IF c = "\\" /\ k + 3 <= Len(script) /\ script[k + 1] = "x"
        THEN LET r == SedReplacement(script, k + 4)
             IN  [ok |-> r.ok, out |-> <<HexDecode(script[k + 2], script[k + 3])>> \o r.out]
      ELSE LET r == SedReplacement(script, k + 1)
           IN  [ok |-> r.ok, out |-> <<c>> \o r.out]

RECURSIVE UpToNewline(_)
UpToNewline(out) ==
    IF out = <<>> \/ Head(out) = "\n" THEN <<>>
    ELSE <<Head(out)>> \o UpToNewline(Tail(out))

\* sed -i '1s;^;LINE\n;' on the lines of the file: the new first line goes above
\* the old first line; a file with no line is left as it is.
SedPrepend(file, date, filename, script) ==
    IF file = <<>> THEN file
    ELSE <<[date |-> date, filename |-> filename,
            text |-> UpToNewline(SedReplacement(script, 1).out)]>> \o file

\* ------------------------------------------------------------ the scan of main
\* thumbs.EachWithBreak: collect the entries after lastDate, stop at the first
\* that is not, panic on a date text that does not parse.
RECURSIVE Collect(_, _, _, _, _)
Collect(thumbs, k, last, tdy, v) ==
    IF k > Len(thumbs) THEN [err |-> FALSE, urls |-> <<>>]
    ELSE IF thumbs[k] = BadDate THEN [err |-> TRUE, urls |-> <<>>]
    ELSE IF StopsScan(thumbs[k], last) THEN [err |-> FALSE, urls |-> <<>>]
    ELSE LET rest == Collect(thumbs, k + 1, last, tdy, v)
         IN  IF SkipsFuture(v) /\ IsFuture(thumbs[k], tdy) THEN rest
             ELSE [err |-> rest.err, urls |-> <<thumbs[k]>> \o rest.urls]

\* -------------------------------------------------------------------- state
VARIABLES
    variant,     \* which of the three programs runs
    today,       \* the calendar day of the machine
    fileExists,  \* wpFile exists
    ledger,      \* the lines of wpFile, first line first
    images,      \* filename -> state of the image file in imgDir
    pc,          \* where the process is: idle, listing, download, present, log, exited, panicked
    lastDate,    \* the global lastDate (ZeroTime until set)
    urls,        \* the collected urls, each named by its listing date
    i,           \* index into urls of the item in hand (1 is the newest)
    cur,         \* what downloadWallpaper returned for the item in hand
    seds,        \* sed processes started and not yet finished
    runs,        \* runs started so far
    requests,    \* GET requests issued by this run
    ledger0,     \* the lines of wpFile when this run started
    existed0,    \* whether wpFile existed when this run started
    listing,     \* the listing this run received
    resolved,    \* what downloadWallpaper returned in this run, in order
    presented,   \* the items setWallpaper started fbsetbg for in this run
    stored,      \* the image files this run created
    prev,        \* today, listing and outcome of the run before this one
    faults,      \* environment faults so far
    fault,       \* the last environment fault of this run, "none" if there was none
    oddPages,    \* odd detail pages served so far
    consistent,  \* every listing so far was strictly newest-first and every detail
                 \* page carried the date of its listing entry
    mismatch     \* the self-check of logWallpaper logged a mismatch in this run

vars == <<variant, today, fileExists, ledger, images, pc, lastDate, urls, i, cur, seds,
          runs, requests, ledger0, existed0, listing, resolved, presented, stored, prev,
          faults, fault, oddPages, consistent, mismatch>>

Terminated == pc \in {"exited", "panicked"}
Quiet == seds = <<>>

\* A line of the ledger as a first run of the variant leaves it.
PlainRecord(v, d) ==
    [date |-> d, filename |-> d,
     text |-> LoggedText(v, IF v = "part_001" THEN <<>> ELSE <<"a">>,
                            IF v = "bingwallpaper" THEN <<>> ELSE <<"a">>)]

NoRun == [today |-> 0, listing |-> <<>>, outcome |-> "none"]

\* A machine on which the program never ran, or ran once on day d with success.
Init ==
    /\ variant \in Variants
    /\ today \in 2..(MaxDay - 1)
    /\ \/ fileExists = FALSE /\ ledger = <<>> /\ images = [f \in Days |-> "absent"]
       \/ \E d \in 1..today :
            /\ fileExists = TRUE
            /\ ledger = <<PlainRecord(variant, d), BlankLine>>
            /\ images = [f \in Days |-> IF f = d THEN "full" ELSE "absent"]
    /\ pc = "idle"
    /\ lastDate = ZeroTime
    /\ urls = <<>>
    /\ i = 0
    /\ cur = NoItem
    /\ seds = <<>>
    /\ runs = 0
    /\ requests = 0
    /\ ledger0 = ledger
    /\ existed0 = fileExists
    /\ listing = <<>>
    /\ resolved = <<>>
    /\ presented = <<>>
    /\ stored = {}
    /\ prev = NoRun
    /\ faults = 0
    /\ fault = "none"
    /\ oddPages = 0
    /\ consistent = TRUE
    /\ mismatch = FALSE

Panic == pc' = "panicked"

\* An action whose outcome o is not "ok" suffers an environment fault.
Fault(o) ==
    /\ o # "ok" => faults < MaxFaults
    /\ faults' = IF o = "ok" THEN faults ELSE faults + 1
    /\ fault' = IF o = "ok" THEN fault ELSE o

Reserved(text) == \E k \in 1..Len(text) : text[k] # "a"
Oddness(ld, dd, t, d) ==
    (IF dd # ld THEN 1 ELSE 0) + (IF Reserved(t) \/ Reserved(d) THEN 1 ELSE 0)

\* cron starts the program: main up to the request for the listing.
\* tdy is the day main reads from the clock, never earlier than the day of the
\* run before; io is "ok", or the step of the file handling that fails.
Start ==
    /\ pc \in {"idle", "exited", "panicked"}
    /\ Quiet
    /\ runs < MaxRuns
    /\ \E tdy \in today..(MaxDay - 1), io \in {"ok", "create", "write", "open"} :
         /\ today' = tdy
         /\ io # "ok" => faults < MaxFaults
         /\ faults' = IF io = "ok" THEN faults ELSE faults + 1
         /\ fault' = IF io = "ok" THEN "none" ELSE io
         /\ IF ~fileExists
            THEN /\ io \in {"ok", "create", "write"}
                 /\ fileExists' = (io # "create")
                 /\ ledger' = IF io = "ok" THEN <<BlankLine>> ELSE <<>>
                 /\ lastDate' = IF io = "ok" THEN Yesterday(tdy) ELSE ZeroTime
                 /\ pc' = IF io = "ok" THEN "listing" ELSE "panicked"
            ELSE /\ io \in {"ok", "open"}
                 /\ UNCHANGED <<fileExists, ledger>>
                 /\ IF io = "open" \/ ledger = <<>> \/ Head(ledger).date = BadDate
                    THEN lastDate' = ZeroTime /\ Panic
                    ELSE /\ lastDate' = Head(ledger).date
                         /\ pc' = IF AlreadySynchronized(Head(ledger).date, tdy)
                                  THEN "exited" ELSE "listing"
    /\ runs' = runs + 1
    /\ requests' = 0
    /\ ledger0' = ledger
    /\ existed0' = fileExists
    /\ listing' = <<>>
    /\ urls' = <<>>
    /\ i' = 0
    /\ cur' = NoItem
    /\ resolved' = <<>>
    /\ presented' = <<>>
    /\ stored' = {}
    /\ mismatch' = FALSE
    /\ prev' = IF runs = 0 THEN NoRun
               ELSE [today |-> today, listing |-> listing, outcome |-> pc]
    /\ UNCHANGED <<variant, images, seds, oddPages, consistent>>

StrictlyNewestFirst(l) ==
    \A k \in 1..Len(l) : l[k] # BadDate /\ (k < Len(l) => After(l[k], l[k + 1]))

\* The request for the listing and the scan of its entries.
FetchListing ==
    /\ pc = "listing"
    /\ requests' = requests + 1
    /\ \E o \in {"ok", "fetch"} :
         /\ Fault(o)
         /\ IF o = "fetch"
            THEN Panic /\ UNCHANGED <<listing, urls, i, consistent>>
            ELSE \E thumbs \in Listings :
                LET scan == Collect(thumbs, 1, lastDate, today, variant) IN
                /\ listing' = thumbs
                /\ consistent' = (consistent /\ StrictlyNewestFirst(thumbs))
                /\ IF thumbs = <<>> \/ scan.err
                   THEN Panic /\ UNCHANGED <<urls, i>>
                   ELSE /\ urls' = scan.urls
                        /\ i' = Len(scan.urls)
                        /\ pc' = IF scan.urls # <<>> THEN "download"
                                 ELSE IF GuardsEmptyUrls(variant) THEN "exited"
                                 ELSE "panicked"
    /\ UNCHANGED <<variant, today, fileExists, ledger, images, lastDate, cur, seds, runs,
                   ledger0, existed0, resolved, presented, stored, prev, oddPages, mismatch>>

\* The loop condition of main: the item at index k of urls (1 is the first) is
\* one of those that are only downloaded and logged.
OnlyLogged_Mutant(k) == k > 0
OnlyLogged(k) == k > 1

\* downloadWallpaper(urls[i]).  o is how far it gets:
\*   "page"    a page request fails (transport or status)
\*   "parse"   the pages arrive but the date, href or img src is missing or
\*             malformed, or os.Create fails
\*   "image"   the image request fails in transport, after os.Create
\*   "status"  the image request returns a status other than 200
\*   "copy"    io.Copy fails midway
\*   "ok"      every step succeeds
\* The detail page (its date dd, title t and description d) is whatever the
\* remote site serves; the file is named after the image of that page.
DownloadWallpaper ==
    /\ pc = "download"
    /\ \E o \in {"page", "parse", "image", "status", "copy", "ok"},
          dd \in DetailDates(urls[i]), t \in TitleChoices(variant), d \in DescriptionChoices(variant) :
         LET item == [ldate |-> urls[i], date |-> dd, filename |-> dd,
                      title |-> t, description |-> d]
             returns == o = "ok" \/ (o = "status" /\ ~ChecksImageStatus(variant))
             created == o \in {"image", "status", "copy", "ok"}
         IN
         /\ Fault(o)
         /\ oddPages + Oddness(urls[i], dd, t, d) <= MaxOddPages
         /\ oddPages' = IF created THEN oddPages + Oddness(urls[i], dd, t, d) ELSE oddPages
         /\ requests' = requests + (IF o = "page" THEN 1
                                    ELSE IF o = "parse" THEN PageRequests(variant)
                                    ELSE PageRequests(variant) + 1)
         /\ images' = IF ~created THEN images
                      ELSE [images EXCEPT ![dd] =
                              CASE o = "image" -> "empty"
                                [] o = "status" -> IF ChecksImageStatus(variant)
                                                   THEN "empty" ELSE "errbody"
                                [] o = "copy" -> "partial"
                                [] OTHER -> "full"]
         /\ stored' = IF created THEN stored \cup {dd} ELSE stored
         /\ consistent' = (consistent /\ (created => dd = urls[i]))
         /\ IF returns
            THEN /\ cur' = item
                 /\ resolved' = Append(resolved, item)
                 /\ pc' = IF OnlyLogged(i) THEN "log" ELSE "present"
            ELSE Panic /\ UNCHANGED <<cur, resolved>>
    /\ UNCHANGED <<variant, today, fileExists, ledger, lastDate, urls, i, seds, runs,
                   ledger0, existed0, listing, presented, prev, mismatch>>

\* setWallpaper for the newest item: start fbsetbg, then zenity.
SetWallpaper ==
    /\ pc = "present"
    /\ \E o \in {"ok", "fbsetbg", "zenity"} :
         /\ Fault(o)
         /\ presented' = IF o = "fbsetbg" THEN presented ELSE Append(presented, cur)
         /\ pc' = IF o = "ok" THEN "log" ELSE "panicked"
    /\ UNCHANGED <<variant, today, fileExists, ledger, images, lastDate, urls, i, cur, seds,
                   runs, requests, ledger0, existed0, listing, resolved, stored, prev,
                   oddPages, consistent, mismatch>>

\* Where main goes after logWallpaper returns for urls[i].
AfterLog ==
    IF OnlyLogged(i) THEN pc' = "download" /\ i' = i - 1
    ELSE pc' = "exited" /\ i' = i

\* logWallpaper.  o: "ok", "start" (sed cannot be started) or "check" (the
\* file cannot be opened or read for the self-check).
\* With Run the sed process has finished, and its exit status is checked,
\* before logWallpaper goes on; with Start the process is left running.
LogWallpaper ==
    /\ pc = "log"
    /\ \E o \in {"ok", "start", "check"} :
         LET text == LoggedText(variant, cur.title, cur.description)
             script == SedScript(variant, text)
             after == SedPrepend(ledger, cur.date, cur.filename, script)
         IN
         /\ Fault(o)
         /\ IF o = "start"
            THEN Panic /\ UNCHANGED <<ledger, seds, i, mismatch>>
            ELSE IF WaitsForSed(variant)
            THEN IF ~SedReplacement(script, 1).ok
                 THEN Panic /\ UNCHANGED <<ledger, seds, i, mismatch>>
                 ELSE /\ ledger' = after
                      /\ UNCHANGED seds
                      /\ IF o = "check" \/ after = <<>>
                         THEN Panic /\ UNCHANGED <<i, mismatch>>
                         ELSE /\ mismatch' = (mismatch \/ Head(after).text # text)
                              /\ AfterLog
            ELSE /\ o = "ok"
                 /\ seds' = Append(seds, [date |-> cur.date, filename |-> cur.filename,
                                          script |-> script, phase |-> "started",
                                          snap |-> <<>>])
                 /\ AfterLog
                 /\ UNCHANGED <<ledger, mismatch>>
    /\ UNCHANGED <<variant, today, fileExists, images, lastDate, urls, cur, runs, requests,
                   ledger0, existed0, listing, resolved, presented, stored, prev, oddPages,
                   consistent>>

RemoveAt(s, k) == SubSeq(s, 1, k - 1) \o SubSeq(s, k + 1, Len(s))

\* A started sed parses its script and reads wpFile; a script it cannot parse
\* ends it with an error nobody reads.
SedRead ==
    /\ \E k \in 1..Len(seds) :
         /\ seds[k].phase = "started"
         /\ seds' = IF SedReplacement(seds[k].script, 1).ok
                    THEN [seds EXCEPT ![k].phase = "read", ![k].snap = ledger]
                    ELSE RemoveAt(seds, k)
    /\ UNCHANGED <<variant, today, fileExists, ledger, images, pc, lastDate, urls, i, cur,
                   runs, requests, ledger0, existed0, listing, resolved, presented, stored,
                   prev, faults, fault, oddPages, consistent, mismatch>>

\* sed -i renames its temporary file over wpFile: what it read, with the new
\* first line.
SedWrite ==
    /\ \E k \in 1..Len(seds) :
         /\ seds[k].phase = "read"
         /\ ledger' = SedPrepend(seds[k].snap, seds[k].date, seds[k].filename,
                                 seds[k].script)
         /\ seds' = RemoveAt(seds, k)
    /\ UNCHANGED <<variant, today, fileExists, images, pc, lastDate, urls, i, cur,
                   runs, requests, ledger0, existed0, listing, resolved, presented, stored,
                   prev, faults, fault, oddPages, consistent, mismatch>>

Next ==
    \/ Start
    \/ FetchListing
    \/ DownloadWallpaper
    \/ SetWallpaper
    \/ LogWallpaper
    \/ SedRead
    \/ SedWrite

Spec == Init /\ [][Next]_vars

\* ================================================================ properties
IsRecord(line) == line.date # BadDate
RecordDates(l) == {l[k].date : k \in {j \in 1..Len(l) : IsRecord(l[j])}}

NoDuplicateDates(l) ==
    \A a, b \in 1..Len(l) :
        (a # b /\ IsRecord(l[a]) /\ IsRecord(l[b])) => l[a].date # l[b].date

\* Every record is dated strictly later than the record on the next line.
SortedNewestFirst(l) ==
    \A k \in 1..(Len(l) - 1) :
        (IsRecord(l[k]) /\ IsRecord(l[k + 1])) => After(l[k].date, l[k + 1].date)

\* The ledger this run appends to: what it found, or the placeholder line it wrote.
Base == IF existed0 THEN ledger0 ELSE <<BlankLine>>

\* The lines above Base, oldest first.
RECURSIVE Reverse(_)
Reverse(q) == IF q = <<>> THEN <<>> ELSE Append(Reverse(Tail(q)), Head(q))
ExtendsBase == Len(ledger) >= Len(Base) /\ SubSeq(ledger, Len(ledger) - Len(Base) + 1, Len(ledger)) = Base
Appended == IF ExtendsBase THEN Reverse(SubSeq(ledger, 1, Len(ledger) - Len(Base))) ELSE <<>>

\* The line logWallpaper is meant to record for an item.
RecordOf(v, item) ==
    [date |-> item.date, filename |-> item.filename,
     text |-> LoggedText(v, item.title, item.description)]

\* ------------------------------------------------------------------------ C1
\* C1 as stated, for the variant it cites (part_000): whatever the runs and the
\* remote listing, the ledger never holds two records with the same date.
C1_AnyListing == variant = "part_000" => NoDuplicateDates(ledger)

\* C1, amended: in part_000, as long as every listing served was strictly
\* newest-first and every detail page carried the date of its listing entry,
\* the ledger never holds two records with the same date, whatever the runs
\* (successful, no-op or aborted).
C1_NoDuplicateDates == (variant = "part_000" /\ consistent) => NoDuplicateDates(ledger)

\* A second run of part_000 that appended, on a listing that still showed a
\* date recorded before the run.
C1_Witness ==
    /\ variant = "part_000" /\ consistent /\ runs = 2 /\ pc = "exited"
    /\ Len(Appended) >= 1
    /\ \E k \in 1..Len(listing) : listing[k] \in RecordDates(Base)

\* ------------------------------------------------------------------------ C2
\* C2: after any run (the process has ended and every sed it started has
\* finished) the records of the ledger are strictly newest-first.  Stated for
\* the remote the spec assumes: listings newest-first, detail pages dated as
\* their listing entries.
C2_SortedAfterRun ==
    (variant \in {"part_000", "bingwallpaper"} /\ Terminated /\ Quiet /\ consistent)
        => SortedNewestFirst(ledger)

\* ------------------------------------------------------------------------ C3
\* The listing holds exactly the days after the baseline up to its newest
\* entry, newest first, none of them after today.
CatchUpListing ==
    /\ listing # <<>>
    /\ \A k \in 1..Len(listing) : listing[k] = lastDate + Len(listing) + 1 - k
    /\ ~After(listing[1], today)

\* C3: a run without a failing step on a listing of the N days after the
\* baseline appends exactly N records, oldest first, each as resolved from its
\* own detail page, and presents once, the newest.
C3_CatchUpComplete ==
    (variant \in {"part_000", "part_001"} /\ pc = "exited" /\ Quiet /\ fault = "none"
       /\ CatchUpListing)
        => /\ ExtendsBase
           /\ Len(Appended) = Len(listing)
           /\ Len(resolved) = Len(listing)
           /\ \A k \in 1..Len(listing) :
                k <= Len(Appended) /\ k <= Len(resolved)
                    => Appended[k] = RecordOf(variant, resolved[k])
           /\ Len(presented) = 1
           /\ presented[1] = resolved[Len(resolved)]
           /\ presented[1].ldate = listing[1]

\* ------------------------------------------------------------------------ C4
\* C4: a run that finds a ledger whose first line is dated today ends at once:
\* no request, no image file, no presentation, the ledger as it was.
C4_FastPath ==
    (runs >= 1 /\ existed0 /\ ledger0 # <<>> /\ Head(ledger0).date = today)
        => /\ Terminated
           /\ requests = 0
           /\ stored = {}
           /\ resolved = <<>>
           /\ presented = <<>>
           /\ ledger = ledger0
           /\ Quiet

\* The run after one that recorded today's wallpaper.
C4_Witness ==
    /\ runs = 2 /\ prev.outcome = "exited" /\ pc = "exited"
    /\ existed0 /\ ledger0 # <<>> /\ Head(ledger0).date = today
    /\ Len(ledger0) >= 3

\* ------------------------------------------------------------------------ C5
\* C5: a run right after a run that ended normally, on the same day and with
\* the same listing, makes at most the listing request, creates no image file,
\* presents nothing and leaves the ledger as it found it.
C5_SecondRunIdle ==
    (variant \in {"part_000", "bingwallpaper"} /\ runs = 2 /\ consistent
       /\ prev.outcome = "exited" /\ prev.today = today
       /\ (requests = 0 \/ listing = prev.listing))
        => /\ requests <= 1
           /\ stored = {}
           /\ presented = <<>>
           /\ ledger = ledger0

\* ------------------------------------------------------------------------ C6
\* No entry of the listing is eligible: the first is not after the baseline,
\* or every entry after the baseline is after today.
NoEligibleEntry ==
    /\ listing # <<>>
    /\ \A k \in 1..Len(listing) : listing[k] # BadDate
    /\ \/ ~After(listing[1], lastDate)
       \/ \A k \in 1..Len(listing) : After(listing[k], lastDate) => After(listing[k], today)

\* C6: once the listing has arrived with no eligible entry the run is over,
\* ended normally, with no download, no presentation and nothing appended.
C6_NoOpRun ==
    (variant \in {"part_000", "bingwallpaper"} /\ runs >= 1 /\ NoEligibleEntry)
        => /\ pc = "exited"
           /\ resolved = <<>>
           /\ stored = {}
           /\ presented = <<>>
           /\ ledger = Base

\* ------------------------------------------------------------------------ C7
\* The eligible entries of a listing, in listing order: those before the
\* first entry not after the baseline, less those after today.
RECURSIVE EligibleFrom(_, _, _, _)
EligibleFrom(l, k, last, tdy) ==
    IF k > Len(l) \/ ~After(l[k], last) THEN <<>>
    ELSE (IF After(l[k], tdy) THEN <<>> ELSE <<l[k]>>) \o EligibleFrom(l, k + 1, last, tdy)

\* C7: no entry dated after today is collected, resolved or downloaded, and
\* the entries collected from a listing are all its eligible entries, those
\* behind an entry dated after today included.
C7_FutureSkipped ==
    /\ \A k \in 1..Len(urls) : ~After(urls[k], today)
    /\ \A k \in 1..Len(resolved) : ~After(resolved[k].ldate, today)
    /\ (listing # <<>> /\ \A k \in 1..Len(listing) : listing[k] # BadDate)
           => urls = EligibleFrom(listing, 1, lastDate, today)

\* ------------------------------------------------------------------------ C8
\* C8: the run after an aborted run that left the ledger artifact with the
\* line main writes into it determines a baseline date, unless its own file
\* handling fails.
C8_NextRunProceeds ==
    (runs = 2 /\ prev.outcome = "panicked" /\ fault = "none" /\ existed0 /\ ledger0 # <<>>)
        => lastDate # ZeroTime /\ (pc = "panicked" => requests >= 1)

\* ------------------------------------------------------------------------ C9
\* The records above Base are those of the first n items resolved in this run.
DurablePrefix(n) ==
    /\ ExtendsBase
    /\ Len(Appended) = n
    /\ n <= Len(resolved)
    /\ \A k \in 1..n : k <= Len(Appended) /\ k <= Len(resolved)
                          => Appended[k] = RecordOf(variant, resolved[k])

\* Items of the catch-up list done with before the one in hand.
ItemsBefore == Len(urls) - i

\* C9 as stated, for part_000: every failure aborts the run, and a run that
\* aborts on item k leaves exactly the records of items 1..k-1 above the prior
\* ledger and has resolved no item after k.
C9_AbortLeavesPrefix ==
    variant = "part_000" =>
        /\ fault # "none" => pc = "panicked"
        /\ (pc = "panicked" /\ urls # <<>>)
               => DurablePrefix(ItemsBefore) /\ Len(resolved) <= ItemsBefore + 1

\* C9, amended: as stated, except that a failure of logWallpaper's self-check
\* (opening or reading wpFile after sed has run) aborts the run with the
\* record of item k already in the ledger.
C9_AbortLeavesPrefixOrChecked ==
    variant = "part_000" =>
        /\ fault # "none" => pc = "panicked"
        /\ (pc = "panicked" /\ urls # <<>>)
               => /\ DurablePrefix(ItemsBefore + (IF fault = "check" THEN 1 ELSE 0))
                  /\ Len(resolved) <= ItemsBefore + 1

\* The second of two items fails in part_000 after the first was recorded.
C9_Witness ==
    /\ variant = "part_000" /\ pc = "panicked" /\ Len(urls) = 2 /\ i = 1
    /\ fault \in {"page", "parse", "image", "status", "copy", "fbsetbg", "zenity", "start"}
    /\ Len(Appended) = 1

\* ----------------------------------------------------------------------- C10
\* C10: an image request answered with a status other than 200 aborts the
\* run: the item is neither presented nor recorded.
C10_ImageStatusRequired ==
    fault = "status"
        => /\ pc = "panicked"
           /\ presented = <<>>
           /\ Quiet
           /\ DurablePrefix(ItemsBefore)

\* ----------------------------------------------------------------------- C11
\* A step leaves every image file that holds a complete body with a complete body.
Complete(content) == content \in {"full", "errbody"}
ImagesKept ==
    variant \in {"part_000", "bingwallpaper"}
        => (\A f \in Days : Complete(images[f]) => Complete(images'[f]))

\* C11: no step turns an image file that holds a complete body into an empty
\* or partial file: after the step the file holds what it held or a complete
\* response body.
C11_ImageNeverCorrupted == [][ImagesKept]_vars

\* ----------------------------------------------------------------------- C12
\* The latest of the dates resolved in this run.
LatestResolved(d) == \A k \in 1..Len(resolved) : ~After(resolved[k].date, d)

\* C12 (part_000): setWallpaper is invoked at most once per run, for the first
\* entry of urls (the newest eligible item), after that item was resolved and
\* its image written in full, after the records of all the other items were
\* appended and before its own record is; and the item whose record is the
\* last to be appended has been presented before.
C12_PresentedOnceNewestLast ==
    variant = "part_000" =>
        /\ Len(presented) <= 1
        /\ presented # <<>> =>
              /\ i = 1
              /\ Len(resolved) = Len(urls)
              /\ presented[1] = resolved[Len(resolved)]
              /\ presented[1].ldate = urls[1]
              /\ consistent => LatestResolved(presented[1].date)
              /\ stored # {} /\ presented[1].filename \in stored
              /\ images[presented[1].filename] = "full"
              /\ ExtendsBase /\ Len(Appended) >= Len(urls) - 1
        /\ (pc = "log" /\ i = 1) =>
              /\ Len(presented) = 1
              /\ DurablePrefix(Len(urls) - 1)
        /\ (pc = "present") => presented = <<>> /\ DurablePrefix(Len(urls) - 1)

\* Two items: the older one recorded without presentation, the newer one
\* presented and not yet recorded.
C12_Witness ==
    /\ variant = "part_000" /\ Len(urls) = 2 /\ pc = "log" /\ i = 1
    /\ Len(presented) = 1 /\ Len(Appended) = 1

\* ----------------------------------------------------------------------- C13
\* The listing of the claim: its newest entry is dated today, the next one,
\* if there is one, the day before.
TodayAndYesterday ==
    /\ listing # <<>>
    /\ listing[1] = today
    /\ Len(listing) >= 2 => listing[2] = today - 1

\* C13 (part_000): a run that finds no ledger creates it with one blank line
\* and takes the day before today as baseline; on a listing of today and
\* yesterday it resolves and fetches today's item only, presents once and
\* leaves the record of that item as first line, above the blank line.
C13_FirstRun ==
    (variant = "part_000" /\ runs >= 1 /\ ~existed0) =>
        /\ fault \notin {"create", "write"} =>
              /\ fileExists /\ ExtendsBase
              /\ lastDate = today - 1
        /\ pc = "listing" => ledger = <<BlankLine>>
        /\ (pc = "exited" /\ fault = "none" /\ TodayAndYesterday) =>
              /\ urls = <<today>>
              /\ Len(resolved) = 1 /\ resolved[1].ldate = today
              /\ stored = {resolved[1].filename}
              /\ requests = 1 + PageRequests(variant) + 1
              /\ presented = <<resolved[1]>>
              /\ ledger = <<RecordOf(variant, resolved[1]), BlankLine>>
              /\ resolved[1].date = resolved[1].ldate => Head(ledger).date = today

\* A first run of part_000 that ended normally on the listing [today, yesterday].
C13_Witness ==
    /\ variant = "part_000" /\ runs = 1 /\ ~existed0 /\ pc = "exited" /\ fault = "none"
    /\ Len(listing) = 2 /\ TodayAndYesterday
    /\ Len(ledger) = 2 /\ Head(ledger).date = today

\* ----------------------------------------------------------------------- C14
\* C14: after a run that recorded one item without a failing step, sed having
\* finished, the first line of the ledger carries the text handed to
\* logWallpaper, character for character, and the self-check logged no
\* mismatch.
C14_EscapingRoundTrip ==
    (pc = "exited" /\ Quiet /\ fault = "none" /\ Len(urls) = 1 /\ Len(resolved) = 1)
        => /\ ledger # <<>>
           /\ Head(ledger) = RecordOf(variant, resolved[1])
           /\ ~mismatch

\* ----------------------------------------------------------------------- C15
\* C15: no sed is in flight while main is outside logWallpaper, so
\* read-modify-writes of the ledger never overlap, and when the process has
\* ended normally every item of urls has its record, in the order issued.
C15_AppendsSequential ==
    /\ Quiet
    /\ (pc = "exited" /\ fault = "none" /\ urls # <<>>) => DurablePrefix(Len(urls))

\* ----------------------------------------------------------------------- C16
\* C16 (part_000): whenever wpFile exists its first line is a record (it
\* starts with a date that parses) and no record of the file is dated later.
C16_FirstLineLatest ==
    (variant = "part_000" /\ fileExists) =>
        /\ ledger # <<>>
        /\ IsRecord(Head(ledger))
        /\ \A k \in 1..Len(ledger) :
               IsRecord(ledger[k]) => ~After(ledger[k].date, Head(ledger).date)

\* ----------------------------------------------------------------------- C17
\* The position of the first listing entry that is not after the baseline
\* (an entry whose date does not parse counts: the scan ends there as well).
StopIndex ==
    LET stops == {j \in 1..Len(listing) : ~After(listing[j], lastDate)}
    IN  IF stops = {} THEN Len(listing) + 1
        ELSE CHOOSE j \in stops : \A h \in stops : j <= h

NotAfterToday(d) == ~After(d, today)

\* The entries before StopIndex, less those dated after today.
PrefixEligible == SelectSeq(SubSeq(listing, 1, StopIndex - 1), NotAfterToday)

\* C17 (part_000): the collected entries are exactly the listing entries
\* before the first one not after the baseline, less those after today; they
\* are resolved in reverse listing order; nothing at or behind the stopping
\* entry is resolved, downloaded or recorded.
C17_SortedPrefixScan ==
    (variant = "part_000" /\ listing # <<>>
       /\ (StopIndex <= Len(listing) => listing[StopIndex] # BadDate)) =>
        /\ urls = PrefixEligible
        /\ Len(resolved) <= Len(urls)
        /\ \A k \in 1..Len(resolved) :
               k <= Len(urls) => resolved[k].ldate = urls[Len(urls) + 1 - k]
        /\ Cardinality(stored) <= Len(urls)
        /\ ExtendsBase /\ Len(Appended) <= Len(resolved)

\* The first entry stops the scan and the entry behind it is dated after the
\* baseline and not after today: the run ended without resolving it.
C17_Witness ==
    /\ variant = "part_000" /\ pc = "exited" /\ Len(listing) = 2
    /\ StopIndex = 1 /\ listing[1] # BadDate
    /\ After(listing[2], lastDate) /\ ~After(listing[2], today)
    /\ resolved = <<>> /\ stored = {} /\ ledger = ledger0

\* ----------------------------------------------------------------------- C18
\* Every record appended in this run is dated after the baseline, not after
\* today, and after the record that was the first line when it was appended.
AppendedDatesAscend ==
    /\ ExtendsBase
    /\ \A k \in 1..Len(Appended) :
          /\ After(Appended[k].date, lastDate)
          /\ ~After(Appended[k].date, today)
          /\ k > 1 => After(Appended[k].date, Appended[k - 1].date)
          /\ (k = 1 /\ IsRecord(Head(Base))) => After(Appended[k].date, Head(Base).date)

\* C18 as stated, for part_000: the dates of the appended records ascend from
\* the baseline up to today, whatever the detail pages say.
C18_AnyDetailPage ==
    (variant = "part_000" /\ runs >= 1 /\ lastDate # ZeroTime) => AppendedDatesAscend

\* C18, amended: the same, as long as every listing served was strictly
\* newest-first and every detail page carried the date of its listing entry.
C18_DatesAscendWhenPagesAgree ==
    (variant = "part_000" /\ runs >= 1 /\ lastDate # ZeroTime /\ consistent)
        => AppendedDatesAscend

\* A run of part_000 over an earlier record that appended two records from
\* pages that agree with the listing.
C18_Witness ==
    /\ variant = "part_000" /\ consistent /\ pc = "exited" /\ existed0
    /\ Len(Appended) = 2 /\ IsRecord(Head(Base))

\* ----------------------------------------------------------------------- C19
\* A step that changes the ledger puts one line above the lines it had and
\* leaves those as they were; a logWallpaper that waits for sed and returns
\* has added one line.
LedgerOnlyGrows ==
    variant \in {"part_000", "part_001"} =>
        /\ ledger' # ledger => (ledger' # <<>> /\ Tail(ledger') = ledger)
        /\ (pc = "log" /\ pc' # "panicked" /\ WaitsForSed(variant))
               => Len(ledger') = Len(ledger) + 1

\* C19: the ledger is append-only: no step removes, rewrites or reorders a
\* line, and each logWallpaper call adds exactly one record above the others.
C19_AppendOnly == [][LedgerOnlyGrows]_vars

====
